---- MODULE Spec2Model ----
(***************************************************************************)
(* Relational model of backend/grupoedetica/models.py.                     *)
(*                                                                         *)
(* The module is a list of Django model declarations.  The state is the    *)
(* database (one table per model), the auto-increment sequence of every    *)
(* table, the model instance held in memory by the latest operation and    *)
(* the outcome of that operation.  The operations are the ones the ORM     *)
(* gives every declared model (save, delete, str) and the seeding routine  *)
(* cargar_tipo_estancia.  The declarations are kept as data (Models,       *)
(* ForeignKeys, Uniques, ...) and the operations are driven by them.       *)
(*                                                                         *)
(* Columns that carry no constraint and no logic (superficie, telefono,    *)
(* descripcion, precio, ...) are not part of a row.                        *)
(***************************************************************************)
EXTENDS Naturals, Sequences, FiniteSets, TLC

VARIABLES db, seq, mem, op, out

vars == <<db, seq, mem, op, out>>

----------------------------------------------------------------------------
(* Bounds of the model.                                                    *)

\* Primary keys and foreign-key inputs of save and delete range over 1..MaxId.
MaxId == 2

\* Plain text and number columns hold one of MaxText distinct values.
MaxText == 2

\* Longest letra given to a save.
MaxLen == 1

\* Calls of cargar_tipo_estancia in one behaviour.
MaxCalls == 2

----------------------------------------------------------------------------
(* Python values.                                                          *)

\* A str is a sequence of characters; None is a token that is no such sequence.
None == <<"None">>

NULL == 0

Alphabet == {"a", "A", "ß"}

\* str.upper() on one character: "ß" becomes the two characters "SS".
UpperChar(c) ==
    CASE c = "a" -> <<"A">>
      [] c = "ß" -> <<"S", "S">>
      [] OTHER   -> <<c>>

RECURSIVE Upper(_)
Upper(s) == IF s = <<>> THEN <<>> ELSE UpperChar(Head(s)) \o Upper(Tail(s))

\* Truth value of a str-or-None, as tested by "if value:".
Truthy(v) == v # None /\ v # <<>>

RECURSIVE StringsUpTo(_)
StringsUpTo(n) ==
    IF n = 0 THEN {<<>>}
    ELSE LET shorter == StringsUpTo(n - 1)
         IN  shorter \cup {Append(s, c) : s \in shorter, c \in Alphabet}

Digit(d) ==
    CASE d = 0 -> "0" [] d = 1 -> "1" [] d = 2 -> "2" [] d = 3 -> "3"
      [] d = 4 -> "4" [] d = 5 -> "5" [] d = 6 -> "6" [] d = 7 -> "7"
      [] d = 8 -> "8" [] d = 9 -> "9"

\* format(n) of a non-negative int inside an f-string.
RECURSIVE Decimal(_)
Decimal(n) == IF n < 10 THEN <<Digit(n)>> ELSE Append(Decimal(n \div 10), Digit(n % 10))

----------------------------------------------------------------------------
(* The declarations.                                                       *)

\* The model classes of the module, and the imported user account model.
Models ==
    {"User", "TipoEstancia", "Estancia", "Cliente", "TipoBase", "EstanciaTipoBase",
     "Portal", "DocumentoPortalPromocion", "TipoBasePortal", "DocumentoTipoBasePortal",
     "Inmueble", "DocumentoInmueble", "PlazaGaraje", "TipoVotacion", "Votacion",
     "OpcionVoto", "ClienteOpcionVoto", "ConfiguracionInmueble", "OpcionConfiguracion",
     "OpcionConfiguracionSeleccionada", "DocumentoConfiguracionInmueble"}

\* Every name bound at module level: the imports and the class statements.
ModuleNames == Models \cup {"models", "UpperCaseCharField"}

FK(m, f, t, d, n) == [model |-> m, field |-> f, to |-> t, on_delete |-> d, null |-> n]

\* Every ForeignKey / OneToOneField declaration, as written.
ForeignKeys ==
    { FK("Estancia", "tipo", "TipoEstancia", "RESTRICT", FALSE),
      FK("Cliente", "user", "User", "CASCADE", FALSE),
      FK("EstanciaTipoBase", "tipo_base", "TipoBase", "RESTRICT", FALSE),
      FK("EstanciaTipoBase", "estancia", "Estancia", "RESTRICT", FALSE),
      FK("DocumentoPortalPromocion", "portal", "Portal", "RESTRICT", FALSE),
      FK("TipoBasePortal", "portal", "Portal", "RESTRICT", FALSE),
      FK("TipoBasePortal", "tipo_base", "TipoBase", "RESTRICT", FALSE),
      FK("DocumentoTipoBasePortal", "inmueble_tipo_portal", "TipoBasePortal", "RESTRICT", FALSE),
      FK("Inmueble", "tipo", "TipoBasePortal", "RESTRICT", FALSE),
      FK("Inmueble", "propietario", "Cliente", "RESTRICT", FALSE),
      FK("DocumentoInmueble", "inmueble", "Inmueble", "RESTRICT", FALSE),
      FK("PlazaGaraje", "inmueble", "Inmueble", "RESTRICT", FALSE),
      FK("PlazaGaraje", "portal", "Portal", "RESTRICT", FALSE),
      FK("Votacion", "tipo", "TipoVotacion", "RESTRICT", FALSE),
      FK("Votacion", "portal", "Portal", "RESTRICT", FALSE),
      FK("Votacion", "inmueble_tipo_portal", "InmuebleTipoPortal", "RESTRICT", FALSE),
      FK("OpcionVoto", "votacion", "Votacion", "RESTRICT", FALSE),
      FK("ClienteOpcionVoto", "cliente", "Cliente", "RESTRICT", FALSE),
      FK("ClienteOpcionVoto", "opcion_voto", "OpcionVoto", "RESTRICT", FALSE),
      FK("OpcionConfiguracion", "configuracion", "ConfiguracionInmueble", "RESTRICT", FALSE),
      FK("OpcionConfiguracionSeleccionada", "inmueble", "Inmueble", "RESTRICT", TRUE),
      FK("OpcionConfiguracionSeleccionada", "opcion_configuracion", "OpcionConfiguracion",
         "RESTRICT", TRUE),
      FK("DocumentoConfiguracionInmueble", "opcion_configuracion_inmueble",
         "OpcionConfiguracionSeleccionada", "RESTRICT", FALSE) }

\* A foreign key's target is looked up when the class body runs: a name the
\* module never binds raises NameError and the relation is never built.
Resolves(fk) == fk.to \in ModuleNames

\* The relations between tables: the foreign keys whose target is a model.
SchemaFKs == {fk \in ForeignKeys : Resolves(fk)}

\* The foreign keys of each model, tabulated.
FKTable == [m \in Models |-> {fk \in SchemaFKs : fk.model = m}]

FKsOf(m) == FKTable[m]

FKFieldTable == [m \in Models |-> {fk.field : fk \in FKTable[m]}]

FKFields(m) == FKFieldTable[m]

\* Portal declares numero as its primary key; every other model gets the
\* automatic field id.
PkField(m) == IF m = "Portal" THEN "numero" ELSE "id"

AutoPk(m) == PkField(m) = "id"

\* The constrained value columns of each model (the primary key apart).
ValueFields(m) ==
    CASE m = "TipoEstancia"                   -> {"nombre"}
      [] m = "Cliente"                        -> {"dni"}
      [] m = "EstanciaTipoBase"               -> {"numero"}
      [] m = "DocumentoPortalPromocion"       -> {"titulo", "ruta_documento"}
      [] m = "DocumentoTipoBasePortal"        -> {"titulo", "ruta_documento"}
      [] m = "Inmueble"                       -> {"letra"}
      [] m = "DocumentoInmueble"              -> {"titulo", "ruta_documento"}
      [] m = "DocumentoConfiguracionInmueble" -> {"titulo"}
      [] OTHER                                -> {}

\* The columns an instance is constructed with.
ColumnTable == [m \in Models |-> FKFields(m) \cup ValueFields(m)]

Columns(m) == ColumnTable[m]

\* The attributes an instance answers to: its fields and the alias pk.
InstanceAttrs(m) == Columns(m) \cup {PkField(m), "pk"}

UQ(m, fs) == [model |-> m, fields |-> fs]

\* unique=True and OneToOneField declarations.
FieldUniques ==
    { UQ("Cliente", {"user"}),
      UQ("Cliente", {"dni"}),
      UQ("DocumentoPortalPromocion", {"titulo"}),
      UQ("DocumentoPortalPromocion", {"ruta_documento"}),
      UQ("DocumentoTipoBasePortal", {"titulo"}),
      UQ("DocumentoTipoBasePortal", {"ruta_documento"}),
      UQ("DocumentoInmueble", {"titulo"}),
      UQ("DocumentoInmueble", {"ruta_documento"}),
      UQ("DocumentoConfiguracionInmueble", {"titulo"}) }

\* Meta.unique_together declarations.
TogetherUniques ==
    { UQ("EstanciaTipoBase", {"tipo_base", "estancia"}),
      UQ("ClienteOpcionVoto", {"cliente", "opcion_voto"}) }

\* Cliente.dni declared without unique=True.
UniquesNoDni == (FieldUniques \ {UQ("Cliente", {"dni"})}) \cup TogetherUniques

\* ClienteOpcionVoto unique on cliente alone: one cast vote per owner.
UniquesVotoPerCliente ==
    FieldUniques
        \cup (TogetherUniques \ {UQ("ClienteOpcionVoto", {"cliente", "opcion_voto"})})
        \cup {UQ("ClienteOpcionVoto", {"cliente"})}

\* EstanciaTipoBase unique on (tipo_base, numero) instead of (tipo_base, estancia).
UniquesEtbNumero ==
    FieldUniques
        \cup (TogetherUniques \ {UQ("EstanciaTipoBase", {"tipo_base", "estancia"})})
        \cup {UQ("EstanciaTipoBase", {"tipo_base", "numero"})}

\* DocumentoPortalPromocion unique on the pair (titulo, ruta_documento) only.
UniquesDocPair ==
    (FieldUniques \ {UQ("DocumentoPortalPromocion", {"titulo"}),
                     UQ("DocumentoPortalPromocion", {"ruta_documento"})})
        \cup TogetherUniques
        \cup {UQ("DocumentoPortalPromocion", {"titulo", "ruta_documento"})}

\* Every uniqueness constraint of the schema.
Uniques == FieldUniques \cup TogetherUniques

\* The names cargar_tipo_estancia inserts, in order.
tipo_estancias ==
    <<"Dormitorio", "Salón", "Baño", "Aseo", "Cocina", "Terraza", "Lavadero", "Pasillo">>

----------------------------------------------------------------------------
(* The database.                                                           *)

Pks(d, m) == {r[PkField(m)] : r \in d[m]}

RowOf(d, m, pk) == CHOOSE r \in d[m] : r[PkField(m)] = pk

\* The custom field class of Inmueble.letra; every other column is a stock field.
FieldClass(m, f) ==
    IF m = "Inmueble" /\ f = "letra" THEN "UpperCaseCharField" ELSE "Field"

\* UpperCaseCharField.pre_save without its setattr: the row is written in upper
\* case and the instance keeps what it was given.
UpperCasePreSaveNoSetattr(value) ==
    IF Truthy(value)
    THEN [stored |-> Upper(value), attr |-> value]
    ELSE [stored |-> value, attr |-> value]

\* UpperCaseCharField.pre_save: the value written to the row, and the value
\* the instance attribute holds afterwards.
UpperCasePreSave(value) ==
    IF Truthy(value)
    THEN [stored |-> Upper(value), attr |-> Upper(value)]
    ELSE [stored |-> value, attr |-> value]

\* Field.pre_save of the stock fields returns the attribute as it is.
PreSave(m, f, value) ==
    IF FieldClass(m, f) = "UpperCaseCharField"
    THEN UpperCasePreSave(value)
    ELSE [stored |-> value, attr |-> value]

IsNull(m, f, v) ==
    IF f \in FKFields(m) THEN v = NULL
    ELSE IF FieldClass(m, f) = "UpperCaseCharField" THEN v = None
    ELSE FALSE

Nullable(m, f) == \E fk \in FKsOf(m) : fk.field = f /\ fk.null

\* NOT NULL on every column declared without null=True.
NotNullOk(m, row) == \A f \in Columns(m) : IsNull(m, f, row[f]) => Nullable(m, f)

\* Every foreign key column is NULL or the primary key of a row of its target.
ForeignKeyOk(d, m, row) ==
    \A fk \in FKsOf(m) : row[fk.field] = NULL \/ row[fk.field] \in Pks(d, fk.to)

\* No two rows agree on all the fields of a unique constraint.
UniqueOk(m, rows) ==
    \A uq \in {u \in Uniques : u.model = m} :
        \A r1, r2 \in rows :
            r1[PkField(m)] # r2[PkField(m)] => \E f \in uq.fields : r1[f] # r2[f]

\* Model.save() of an instance: pre_save of every field, then an UPDATE when
\* the primary key is set and its row exists, an INSERT otherwise.  The
\* database refuses a row that breaks a constraint (IntegrityError, with the
\* kind of constraint in detail) and then keeps every table as it was.
Saved(d, s, inst) ==
    LET m      == inst.model
        pre    == [f \in Columns(m) |-> PreSave(m, f, inst.vals[f])]
        attrs  == [f \in Columns(m) |-> pre[f].attr]
        stored == [f \in Columns(m) |-> pre[f].stored]
        pk     == IF inst.pk # NULL THEN inst.pk ELSE s[m] + 1
        row    == stored @@ (PkField(m) :> pk)
        rows   == {r \in d[m] : r[PkField(m)] # pk} \cup {row}
        failed == IF ~NotNullOk(m, row) THEN "NOT NULL"
                  ELSE IF ~UniqueOk(m, rows) THEN "UNIQUE"
                  ELSE IF ~ForeignKeyOk(d, m, row) THEN "FOREIGN KEY"
                  ELSE ""
    IN  IF failed = ""
        THEN [db     |-> [d EXCEPT ![m] = rows],
              seq    |-> IF inst.pk = NULL THEN [s EXCEPT ![m] = pk] ELSE s,
              mem    |-> [model |-> m, pk |-> pk, vals |-> attrs],
              status |-> "ok",
              detail |-> ""]
        ELSE [db     |-> d,
              seq    |-> s,
              mem    |-> [model |-> m, pk |-> inst.pk, vals |-> attrs],
              status |-> "IntegrityError",
              detail |-> failed]

\* Every foreign key declared with on_delete=CASCADE.
OnDeleteAllCascade(fk) == "CASCADE"

\* The on_delete handler a foreign key is declared with.
OnDelete(fk) == fk.on_delete

\* The rows that reference one of objs through a foreign key handled by `how`.
Referrers(d, objs, how) ==
    UNION { { <<fk.model, r[PkField(fk.model)]>> :
                r \in {x \in d[fk.model] : <<fk.to, x[fk.field]>> \in objs} } :
            fk \in {k \in SchemaFKs : OnDelete(k) = how} }

\* A collector that follows no CASCADE: only the row itself is deleted.
CollectOnly(d, objs) == objs

\* Collector.collect: the rows a delete takes along through CASCADE.
RECURSIVE Collect(_, _)
Collect(d, objs) ==
    LET more == Referrers(d, objs, "CASCADE")
    IN  IF more \subseteq objs THEN objs ELSE Collect(d, objs \cup more)

\* The RESTRICT referrers that are not themselves being deleted.
Restricted(d, objs) == Referrers(d, objs, "RESTRICT") \ objs

\* Model.delete() of the row pk of model m; n is the number of rows deleted,
\* which delete() returns.
Deleted(d, m, pk) ==
    LET objs == Collect(d, {<<m, pk>>})
    IN  IF Restricted(d, objs) # {}
        THEN [db |-> d, status |-> "RestrictedError", n |-> 0]
        ELSE [db     |-> [x \in Models |-> {r \in d[x] : <<x, r[PkField(x)]>> \notin objs}],
              status |-> "ok",
              n      |-> Cardinality(objs)]

\* Portal.__str__: f"Portal {self.id}".
PortalStr(row) ==
    IF "id" \in InstanceAttrs("Portal")
    THEN [status |-> "ok", detail |-> "", n |-> 0,
          value |-> <<"P", "o", "r", "t", "a", "l", " ">> \o Decimal(row["id"])]
    ELSE [status |-> "AttributeError", detail |-> "id", n |-> 0, value |-> <<>>]

\* A seeding loop that skips a name the table already holds (get_or_create).
RECURSIVE SeededOnce(_, _, _)
SeededOnce(d, s, i) ==
    IF i > Len(tipo_estancias) THEN [db |-> d, seq |-> s]
    ELSE IF \E r \in d["TipoEstancia"] : r.nombre = tipo_estancias[i]
         THEN SeededOnce(d, s, i + 1)
         ELSE LET res == Saved(d, s, [model |-> "TipoEstancia", pk |-> NULL,
                                      vals |-> [f \in {"nombre"} |-> tipo_estancias[i]]])
              IN  SeededOnce(res.db, res.seq, i + 1)

\* The loop of cargar_tipo_estancia from tipo_estancias[i] on.
RECURSIVE Seeded(_, _, _)
Seeded(d, s, i) ==
    IF i > Len(tipo_estancias) THEN [db |-> d, seq |-> s]
    ELSE LET res == Saved(d, s, [model |-> "TipoEstancia", pk |-> NULL,
                                 vals |-> [f \in {"nombre"} |-> tipo_estancias[i]]])
         IN  Seeded(res.db, res.seq, i + 1)

----------------------------------------------------------------------------
(* Inputs.                                                                 *)

\* The target model of foreign key field f of model m.
Target(m, f) == (CHOOSE fk \in FKsOf(m) : fk.field = f).to

\* Values a save is given for field f of model m.  A foreign key is None, a
\* stored row of its target, or the key its target will give out next (a row
\* that is not there).
FieldInputs(m, f) ==
    IF f \in FKFields(m)
    THEN {NULL, seq[Target(m, f)] + 1} \cup (Pks(db, Target(m, f)) \cap 1..MaxId)
    ELSE CASE FieldClass(m, f) = "UpperCaseCharField" -> StringsUpTo(MaxLen) \cup {None}
           [] m = "TipoEstancia"                      -> {tipo_estancias[1], "Trastero"}
           [] OTHER                                   -> 1..MaxText

RECURSIVE Assignments(_, _)
Assignments(m, fields) ==
    IF fields = {} THEN {<<>>}
    ELSE LET f == CHOOSE x \in fields : TRUE
         IN  {(f :> v) @@ r : r \in Assignments(m, fields \ {f}), v \in FieldInputs(m, f)}

\* Primary keys a save is given: none (a new instance) or an existing row's for
\* the automatic id, any number for Portal.numero.
PkInputs(m) == IF AutoPk(m) THEN {NULL} \cup (Pks(db, m) \cap 1..MaxId) ELSE 1..MaxId

SeedCap == MaxId + Len(tipo_estancias) * MaxCalls

----------------------------------------------------------------------------
(* The state machine.                                                      *)

NoInstance == [model |-> "", pk |-> NULL, vals |-> <<>>]

Call(name, m, pk) == [name |-> name, model |-> m, pk |-> pk]

Result(status, detail, n, value) ==
    [status |-> status, detail |-> detail, n |-> n, value |-> value]

\* The model classes in the order of their class statements (User is imported).
ModelOrder ==
    <<"User", "TipoEstancia", "Estancia", "Cliente", "TipoBase", "EstanciaTipoBase",
      "Portal", "DocumentoPortalPromocion", "TipoBasePortal", "DocumentoTipoBasePortal",
      "Inmueble", "DocumentoInmueble", "PlazaGaraje", "TipoVotacion", "Votacion",
      "OpcionVoto", "ClienteOpcionVoto", "ConfiguracionInmueble", "OpcionConfiguracion",
      "OpcionConfiguracionSeleccionada", "DocumentoConfiguracionInmueble">>

\* An instance of model m whose foreign keys name row 1 of their targets; a
\* Portal is given the number n.
Instance(m, n) ==
    [model |-> m,
     pk    |-> IF AutoPk(m) THEN NULL ELSE n,
     vals  |-> [f \in Columns(m) |->
                  IF f \in FKFields(m) THEN 1
                  ELSE CASE FieldClass(m, f) = "UpperCaseCharField" -> <<"a">>
                         [] m = "TipoEstancia"                      -> tipo_estancias[1]
                         [] OTHER                                   -> 1]]

\* The database after saving the instances insts[i..], in turn.
RECURSIVE Populated(_, _, _, _)
Populated(d, s, insts, i) ==
    IF i > Len(insts) THEN [db |-> d, seq |-> s]
    ELSE LET res == Saved(d, s, insts[i])
         IN  Populated(res.db, res.seq, insts, i + 1)

Empty == [db |-> [m \in Models |-> {}], seq |-> [m \in Models |-> 0]]

InitFrom(start) ==
    /\ db = start.db
    /\ seq = start.seq
    /\ mem = NoInstance
    /\ op = Call("init", "", NULL)
    /\ out = Result("ok", "", 0, <<>>)

\* The models m depends on through foreign keys, m included.
RECURSIVE Closure(_)
Closure(ms) ==
    LET more == {fk.to : fk \in {k \in SchemaFKs : k.model \in ms}}
    IN  IF more \subseteq ms THEN ms ELSE Closure(ms \cup more)

\* One instance of each model of ms and of every model these depend on, in
\* the order of the class statements.
Chain(ms) ==
    LET c     == Closure(ms)
        order == SelectSeq(ModelOrder, LAMBDA m : m \in c)
    IN  [i \in 1..Len(order) |-> Instance(order[i], 1)]

\* m.objects.create(**vals), or m(pk=pk, **vals).save() on a stored row, the
\* instance not kept.
Save(S) ==
    \E m \in S : \E pk \in PkInputs(m) : \E vals \in Assignments(m, Columns(m)) :
        /\ pk = NULL => seq[m] < MaxId
        /\ LET res == Saved(db, seq, [model |-> m, pk |-> pk, vals |-> vals])
           IN  /\ db' = res.db
               /\ seq' = res.seq
               /\ out' = Result(res.status, res.detail, 0, <<>>)
        /\ mem' = NoInstance
        /\ op' = Call("save", m, pk)

\* An instance is built (or the row pk loaded) with its related objects read
\* from the database, given vals, saved and kept.
SaveInstance(S) ==
    \E m \in S : \E pk \in PkInputs(m) : \E vals \in Assignments(m, Columns(m)) :
        /\ pk = NULL => seq[m] < MaxId
        /\ \A f \in FKFields(m) : vals[f] \in Pks(db, Target(m, f))
        /\ LET res == Saved(db, seq, [model |-> m, pk |-> pk, vals |-> vals])
           IN  /\ db' = res.db
               /\ seq' = res.seq
               /\ mem' = res.mem
               /\ out' = Result(res.status, res.detail, 0, <<>>)
        /\ op' = Call("save", m, pk)

\* save() called once more on the instance the latest save left in memory.
Resave ==
    /\ mem.model # ""
    /\ mem.pk = NULL => seq[mem.model] < MaxId
    /\ LET res == Saved(db, seq, mem)
       IN  /\ db' = res.db
           /\ seq' = res.seq
           /\ mem' = res.mem
           /\ out' = Result(res.status, res.detail, 0, <<>>)
    /\ op' = Call("resave", mem.model, mem.pk)

\* delete() of a stored row.
Delete(S) ==
    \E m \in S : \E pk \in Pks(db, m) \cap 1..MaxId :
        /\ LET res == Deleted(db, m, pk)
           IN  /\ db' = res.db
               /\ out' = Result(res.status, "", res.n, <<>>)
        /\ op' = Call("delete", m, pk)
        /\ mem' = NoInstance
        /\ UNCHANGED seq

\* str() of a stored Portal.
Str ==
    \E r \in db["Portal"] :
        /\ out' = PortalStr(r)
        /\ op' = Call("str", "Portal", r[PkField("Portal")])
        /\ mem' = NoInstance
        /\ UNCHANGED <<db, seq>>

cargar_tipo_estancia ==
    /\ seq["TipoEstancia"] + Len(tipo_estancias) <= SeedCap
    /\ LET res == Seeded(db, seq, 1)
       IN  /\ db' = res.db
           /\ seq' = res.seq
    /\ mem' = NoInstance
    /\ out' = Result("ok", "", 0, <<>>)
    /\ op' = Call("cargar_tipo_estancia", "TipoEstancia", NULL)

\* The initial database holds one row of each model of ms and of every model
\* these depend on.
InitWith(ms) == InitFrom(Populated(Empty.db, Empty.seq, Chain(ms), 1))

\* Deletes anywhere in the schema, from a database that holds one row of some
\* model and of every model it depends on.
Init == \E t \in Models : InitWith({t})

Next == Save({"User", "Portal"}) \/ Delete(Models) \/ Str

Spec == Init /\ [][Next]_vars

\* Owners and their user accounts, from the empty database.
InitCliente == InitFrom(Empty)

NextCliente == Save({"User", "Cliente"}) \/ Delete({"User", "Cliente"})

SpecCliente == InitCliente /\ [][NextCliente]_vars

\* Units of one owner and one unit type.
InitInmueble == InitWith({"Cliente", "TipoBasePortal"})

NextInmueble == SaveInstance({"Inmueble"}) \/ Resave \/ Delete({"Inmueble"})

SpecInmueble == InitInmueble /\ [][NextInmueble]_vars

\* Cast votes on the options of one Votacion.
InitVoto == InitWith({"Cliente", "Votacion"})

NextVoto ==
    \/ Save({"OpcionVoto", "ClienteOpcionVoto"})
    \/ Delete({"OpcionVoto", "ClienteOpcionVoto"})

SpecVoto == InitVoto /\ [][NextVoto]_vars

\* Rooms of one floor plan.
InitEstancia == InitWith({"TipoEstancia", "TipoBase"})

NextEstancia ==
    \/ Save({"Estancia", "EstanciaTipoBase"})
    \/ Delete({"Estancia", "EstanciaTipoBase"})

SpecEstancia == InitEstancia /\ [][NextEstancia]_vars

\* Documents of two Portals.
InitDocumento ==
    InitFrom(Populated(Empty.db, Empty.seq, <<Instance("Portal", 1), Instance("Portal", 2)>>, 1))

NextDocumento ==
    \/ Save({"DocumentoPortalPromocion"})
    \/ Delete({"DocumentoPortalPromocion"})

SpecDocumento == InitDocumento /\ [][NextDocumento]_vars

\* Room types, seeded and entered by hand, from the empty database.
InitSeed == InitFrom(Empty)

NextSeed == Save({"TipoEstancia"}) \/ Delete({"TipoEstancia"}) \/ cargar_tipo_estancia

SpecSeed == InitSeed /\ [][NextSeed]_vars

----------------------------------------------------------------------------
(* Properties.                                                             *)

\* Row pk of model m is the target of a foreign key of some stored row.
Referenced(d, m, pk) ==
    \E fk \in SchemaFKs : fk.to = m /\ \E r \in d[fk.model] : r[fk.field] = pk

\* The outcome of saving model m with primary key pk and values vals now.
Outcome(m, pk, vals) == Saved(db, seq, [model |-> m, pk |-> pk, vals |-> vals])

SaveInputs(m) == PkInputs(m) \X Assignments(m, Columns(m))

\* Some stored row of m other than pk agrees with vals on all of fields.
Repeats(m, pk, vals, fields) ==
    \E r \in db[m] : r[PkField(m)] # pk /\ \A f \in fields : r[f] = vals[f]

\* vals names stored rows in all its foreign keys.
RefsStored(m, vals) == \A f \in FKFields(m) : vals[f] \in Pks(db, Target(m, f))

\* C1: a delete of a row of any model but User that a stored row references
\* through a foreign key is rejected, and every table keeps exactly its rows.
C1_ReferencedDeleteRejected ==
    [][ (op'.name = "delete" /\ op'.model # "User" /\ Referenced(db, op'.model, op'.pk))
            => (out'.status = "RestrictedError" /\ db' = db) ]_vars

C1_Witness ==
    /\ op.name = "delete"
    /\ op.model = "Cliente"
    /\ out.status = "RestrictedError"
    /\ Referenced(db, "Cliente", op.pk)

ClientesOf(d, u) == {c \in d["Cliente"] : c.user = u}

DeletesUserWithCliente ==
    op'.name = "delete" /\ op'.model = "User" /\ ClientesOf(db, op'.pk) # {}

\* C2 as stated: deleting a user that has a Cliente succeeds and removes both,
\* also when an Inmueble or a ClienteOpcionVoto references the Cliente.
C2_UserDeleteAlwaysCascades ==
    [][ DeletesUserWithCliente
            => /\ out'.status = "ok"
               /\ op'.pk \notin Pks(db', "User")
               /\ ClientesOf(db', op'.pk) = {} ]_vars

\* C2 amended: deleting a user that has a Cliente removes the user and the
\* Cliente, and nothing else, when no row references the Cliente; when an
\* Inmueble or a ClienteOpcionVoto references it, the delete is rejected and
\* every table keeps exactly its rows.
C2_UserDeleteCascadesUnlessRestricted ==
    [][ DeletesUserWithCliente
            => LET cs == ClientesOf(db, op'.pk)
               IN  IF \E c \in cs : Referenced(db, "Cliente", c.id)
                   THEN out'.status = "RestrictedError" /\ db' = db
                   ELSE /\ out'.status = "ok"
                        /\ db' = [db EXCEPT
                                    !["User"] = {u \in @ : u.id # op'.pk},
                                    !["Cliente"] = @ \ cs] ]_vars

C2_Witness ==
    /\ op.name = "delete"
    /\ op.model = "User"
    /\ out.status = "ok"
    /\ out.n = 2
    /\ db["User"] # {}

\* A str that upper() leaves as it is.
IsUpper(s) == \A i \in 1..Len(s) : UpperChar(s[i]) = <<s[i]>>

\* C3: every stored Inmueble.letra is its own upper-case form; after a save the
\* instance's letra is the stored one; saving the instance again changes
\* nothing; an empty or None letra is handed on as it is.
C3_LetraUpperCase ==
    /\ \A r \in db["Inmueble"] : IsUpper(r.letra)
    /\ (op.name \in {"save", "resave"} /\ op.model = "Inmueble" /\ out.status = "ok")
          => /\ mem.pk \in Pks(db, "Inmueble")
             /\ mem.vals.letra = RowOf(db, "Inmueble", mem.pk).letra
             /\ LET again == Saved(db, seq, mem)
                IN  again.status = "ok" /\ again.db = db /\ again.mem = mem
    /\ \A in \in SaveInputs("Inmueble") :
          in[2].letra \in {<<>>, None}
             => LET res == Outcome("Inmueble", in[1], in[2])
                IN  /\ res.mem.vals.letra = in[2].letra
                    /\ res.status = "ok"
                          => RowOf(res.db, "Inmueble", res.mem.pk).letra = in[2].letra

C3_Witness ==
    /\ op.name = "save"
    /\ op.model = "Inmueble"
    /\ out.status = "ok"
    /\ mem.vals.letra = <<"S", "S">>
    /\ Cardinality(db["Inmueble"]) = 2

\* C4: no two Cliente rows share a user or a dni, and a create or update that
\* would make two rows share one is rejected and leaves the table as it was.
C4_ClienteUnique ==
    /\ \A r1, r2 \in db["Cliente"] :
          r1.id # r2.id => (r1.user # r2.user /\ r1.dni # r2.dni)
    /\ \A in \in SaveInputs("Cliente") :
          (Repeats("Cliente", in[1], in[2], {"user"}) \/ Repeats("Cliente", in[1], in[2], {"dni"}))
             => LET res == Outcome("Cliente", in[1], in[2])
                IN  res.status = "IntegrityError" /\ res.db = db

C4_Witness ==
    /\ op.name = "save"
    /\ op.model = "Cliente"
    /\ out.status = "IntegrityError"
    /\ out.detail = "UNIQUE"
    /\ Cardinality(db["Cliente"]) = 2

\* C5: no two ClienteOpcionVoto rows share (cliente, opcion_voto); casting the
\* same pair again is rejected and leaves the table as it was; a pair not yet
\* stored is accepted, whatever else the Cliente has cast.
C5_VotoUnique ==
    /\ \A r1, r2 \in db["ClienteOpcionVoto"] :
          r1.id # r2.id => (r1.cliente # r2.cliente \/ r1.opcion_voto # r2.opcion_voto)
    /\ \A in \in SaveInputs("ClienteOpcionVoto") :
          LET res == Outcome("ClienteOpcionVoto", in[1], in[2])
          IN  IF Repeats("ClienteOpcionVoto", in[1], in[2], {"cliente", "opcion_voto"})
              THEN res.status = "IntegrityError" /\ res.db = db
              ELSE RefsStored("ClienteOpcionVoto", in[2]) => res.status = "ok"

C5_Witness ==
    \E r1, r2 \in db["ClienteOpcionVoto"] :
        /\ r1.cliente = r2.cliente
        /\ r1.opcion_voto # r2.opcion_voto
        /\ RowOf(db, "OpcionVoto", r1.opcion_voto).votacion
              = RowOf(db, "OpcionVoto", r2.opcion_voto).votacion

C7_DocumentoUnique ==
    /\ \A r1, r2 \in db["DocumentoPortalPromocion"] :
          r1.id # r2.id => (r1.titulo # r2.titulo /\ r1.ruta_documento # r2.ruta_documento)
    /\ \A in \in SaveInputs("DocumentoPortalPromocion") :
          (\/ Repeats("DocumentoPortalPromocion", in[1], in[2], {"titulo"})
           \/ Repeats("DocumentoPortalPromocion", in[1], in[2], {"ruta_documento"}))
             => LET res == Outcome("DocumentoPortalPromocion", in[1], in[2])
                IN  res.status = "IntegrityError" /\ res.db = db

C7_Witness ==
    /\ op.name = "save"
    /\ out.status = "IntegrityError"
    /\ out.detail = "UNIQUE"
    /\ \E r1, r2 \in db["DocumentoPortalPromocion"] : r1.portal # r2.portal

\* C8 as stated: every Votacion row references a stored Portal and a stored
\* TipoBasePortal.
C8_VotacionReferencesUnitType ==
    \A v \in db["Votacion"] :
        /\ "portal" \in DOMAIN v
        /\ v["portal"] \in Pks(db, "Portal")
        /\ "inmueble_tipo_portal" \in DOMAIN v
        /\ v["inmueble_tipo_portal"] \in Pks(db, "TipoBasePortal")

SeedRows(first) ==
    {[id |-> first + i, nombre |-> tipo_estancias[i]] : i \in 1..Len(tipo_estancias)}

\* C9: a call of cargar_tipo_estancia adds eight rows, named Dormitorio, Salón,
\* Baño, Aseo, Cocina, Terraza, Lavadero, Pasillo in the order of their new
\* ids, to whatever the table holds, and changes no row that was there.
C9_SeedAddsEight ==
    [][ op'.name = "cargar_tipo_estancia"
            => /\ tipo_estancias = <<"Dormitorio", "Salón", "Baño", "Aseo",
                                     "Cocina", "Terraza", "Lavadero", "Pasillo">>
               /\ Pks(db, "TipoEstancia") \cap {r.id : r \in SeedRows(seq["TipoEstancia"])} = {}
               /\ db'["TipoEstancia"] = db["TipoEstancia"] \cup SeedRows(seq["TipoEstancia"])
               /\ Cardinality(db'["TipoEstancia"]) = Cardinality(db["TipoEstancia"]) + 8 ]_vars

C9_Witness ==
    /\ op.name = "cargar_tipo_estancia"
    /\ Cardinality({r \in db["TipoEstancia"] : r.nombre = "Pasillo"}) = 2
    /\ Cardinality({r \in db["TipoEstancia"] : r.nombre = "Dormitorio"}) = 3

\* C10 as stated: str of a stored Portal is "Portal " followed by its numero,
\* and never fails.
C10_PortalStr ==
    op.name = "str"
        => /\ out.status = "ok"
           /\ out.value = <<"P", "o", "r", "t", "a", "l", " ">> \o Decimal(op.pk)

====
